---- MODULE Spec2Model ----
(***************************************************************************)
(* Model of the helpers library (src/src/index.ts): the identity-document  *)
(* checksum validator duiIsValid and the "format" object (rnc, dui, phone, *)
(* cash, custom).                                                          *)
(*                                                                         *)
(* A JavaScript string is modelled as a sequence of one-character strings. *)
(* A call is a small state machine: the initial state holds the arguments, *)
(* the actions run the function (format.custom's forEach loop is stepped   *)
(* one callback at a time), and pc = "done" holds the returned value.      *)
(***************************************************************************)
EXTENDS Integers, Sequences, FiniteSets

VARIABLES
    fn,          \* the exported function being called
    input,       \* its string argument (dui / rnc / phone / input)
    example,     \* format.custom's `example` argument
    amount,      \* format.cash's amount, in thousandths (fixed point)
    decimalsArg, \* format.cash's optional `decimals`: <<>> when omitted, else <<d>>
    pc,          \* position of the call
    inputArr,    \* format.custom's working array
    index,       \* format.custom's forEach index (0-based, as in the source)
    out,         \* the returned string
    isValid      \* duiIsValid's returned boolean

vars == <<fn, input, example, amount, decimalsArg, pc, inputArr, index, out, isValid>>

----------------------------------------------------------------------------
(* Characters *)

DigitChars == <<"0", "1", "2", "3", "4", "5", "6", "7", "8", "9">>

\* the character class 0-9
Digits == {DigitChars[i] : i \in 1..Len(DigitChars)}

\* the character classes A-Z and a-z
Letters ==
    {"A", "B", "C", "D", "E", "F", "G", "H", "I", "J", "K", "L", "M",
     "N", "O", "P", "Q", "R", "S", "T", "U", "V", "W", "X", "Y", "Z",
     "a", "b", "c", "d", "e", "f", "g", "h", "i", "j", "k", "l", "m",
     "n", "o", "p", "q", "r", "s", "t", "u", "v", "w", "x", "y", "z"}

\* Number(c) for a one-character decimal string
Number(c) == (CHOOSE i \in 1..Len(DigitChars) : DigitChars[i] = c) - 1

\* number.toString() for a non-negative integer, as a character sequence
RECURSIVE toString(_)
toString(number) ==
    IF number < 10
        THEN <<DigitChars[number + 1]>>
        ELSE toString(number \div 10) \o <<DigitChars[(number % 10) + 1]>>

\* str.replace(re, '') for a global single-character class: drop the matching characters
RECURSIVE removeAll(_, _)
removeAll(str, class) ==
    IF str = <<>> THEN <<>>
    ELSE (IF Head(str) \in class THEN <<>> ELSE <<Head(str)>>) \o removeAll(Tail(str), class)

\* str.replace(re, '') for a global negated single-character class: keep the class
RECURSIVE removeAllExcept(_, _)
removeAllExcept(str, class) ==
    IF str = <<>> THEN <<>>
    ELSE (IF Head(str) \in class THEN <<Head(str)>> ELSE <<>>)
             \o removeAllExcept(Tail(str), class)

----------------------------------------------------------------------------
(* duiIsValid *)

lengthRejectedShort(str) == str = <<>> \/ Len(str) < 11

\* !dui || dui.length != 11
lengthRejected(str) == str = <<>> \/ Len(str) # 11

\* dui.replace(/[0-9]/g, '') != ''
hasNonNumeric(str) == removeAll(str, Digits) # <<>>

\* separateAndSum: the first two characters of the decimal text, added
separateAndSum(number) ==
    LET numbers == toString(number)
        leftDigit == Number(numbers[1])
        rightDigit == Number(numbers[2])
    IN  leftDigit + rightDigit

multiplierOneBased(idx) == IF idx % 2 = 1 THEN 1 ELSE 2

\* (index % 2) ? 2 : 1, index the 0-based position in digits
multiplier(idx) == IF idx % 2 # 0 THEN 2 ELSE 1

\* the map callback: one digit's contribution
mapDigit(digit, idx) ==
    LET result == Number(digit) * multiplier(idx)
    IN  IF result > 9 THEN separateAndSum(result) ELSE result

\* digits.map(...).reduce((total, n) => total + n, 0)
RECURSIVE sumFrom(_, _)
sumFrom(digits, i) ==
    IF i > Len(digits) THEN 0
    ELSE mapDigit(digits[i], i - 1) + sumFrom(digits, i + 1)

sum(digits) == sumFrom(digits, 1)

\* (Math.floor(sum / 10) + 1) * 10
topTen(total) == ((total \div 10) + 1) * 10

validator(digits) == topTen(sum(digits)) - sum(digits)

lastDigitMatchesZero(lastDigit, v) == lastDigit = v \/ lastDigit = 0

\* lastDigit == validator || (lastDigit === 0 && validator === 10)
lastDigitMatches(lastDigit, v) == lastDigit = v \/ (lastDigit = 0 /\ v = 10)

duiIsValid(str) ==
    IF lengthRejected(str) THEN FALSE
    ELSE IF hasNonNumeric(str) THEN FALSE
    ELSE LET digits == SubSeq(str, 1, Len(str) - 1)   \* after digits.pop()
             lastDigit == Number(str[Len(str)])
         IN  lastDigitMatches(lastDigit, validator(digits))

----------------------------------------------------------------------------
(* format.custom *)

\* 'Entrada Invalida'
EntradaInvalida ==
    <<"E", "n", "t", "r", "a", "d", "a", " ", "I", "n", "v", "a", "l", "i", "d", "a">>

\* the class 0-0A-Za-z of the length check's regular expression
lengthCheckClass == {"0"} \cup Letters

\* example.replace(/[^0-0A-Za-z]/g, '').length
strippedLength(str) == Len(removeAllExcept(str, lengthCheckClass))

\* input.length != example.replace(/[^0-0A-Za-z]/g, '').length
lengthMismatch(str, ex) == Len(str) # strippedLength(ex)

\* isSpecial.test(char) with isSpecial = /[^0-9A-Za-z]/
isSpecial(char) == char \notin (Digits \cup Letters)

spliceReplace(arr, start, item) ==
    LET at == IF start > Len(arr) THEN Len(arr) ELSE start
    IN  SubSeq(arr, 1, at) \o <<item>> \o SubSeq(arr, at + 2, Len(arr))

\* arr.splice(start, 0, item): a start beyond the array's length is clamped to it
splice(arr, start, item) ==
    LET at == IF start > Len(arr) THEN Len(arr) ELSE start
    IN  SubSeq(arr, 1, at) \o <<item>> \o SubSeq(arr, at + 1, Len(arr))

rncExampleShifted == <<"0", "0", "0", "-", "0", "0", "0", "0", "-", "0", "0">>

\* '000-00000-0'
rncExample == <<"0", "0", "0", "-", "0", "0", "0", "0", "0", "-", "0">>

\* '000-0000000-0'
duiExample == <<"0", "0", "0", "-", "0", "0", "0", "0", "0", "0", "0", "-", "0">>

\* '(000) 000-0000'
phoneExample == <<"(", "0", "0", "0", ")", " ", "0", "0", "0", "-", "0", "0", "0", "0">>

\* format.rnc: return this.custom(rnc, '000-00000-0')
rnc ==
    /\ pc = "start" /\ fn = "rnc"
    /\ example' = rncExample
    /\ pc' = "custom"
    /\ UNCHANGED <<fn, input, amount, decimalsArg, inputArr, index, out, isValid>>

\* format.dui: return this.custom(dui, '000-0000000-0')
dui ==
    /\ pc = "start" /\ fn = "dui"
    /\ example' = duiExample
    /\ pc' = "custom"
    /\ UNCHANGED <<fn, input, amount, decimalsArg, inputArr, index, out, isValid>>

\* format.phone: return this.custom(phone, '(000) 000-0000')
phone ==
    /\ pc = "start" /\ fn = "phone"
    /\ example' = phoneExample
    /\ pc' = "custom"
    /\ UNCHANGED <<fn, input, amount, decimalsArg, inputArr, index, out, isValid>>

\* format.custom, entry: the length check returning the sentinel
customInvalid ==
    /\ pc = "custom"
    /\ lengthMismatch(input, example)
    /\ out' = EntradaInvalida
    /\ pc' = "done"
    /\ UNCHANGED <<fn, input, example, amount, decimalsArg, inputArr, index, isValid>>

\* format.custom, entry: the length check passed, inputArr = input.split('')
customSplit ==
    /\ pc = "custom"
    /\ ~lengthMismatch(input, example)
    /\ inputArr' = input
    /\ index' = 0
    /\ pc' = "forEach"
    /\ UNCHANGED <<fn, input, example, amount, decimalsArg, out, isValid>>

\* one callback of example.split('').forEach((char, index) => ...)
forEach ==
    /\ pc = "forEach"
    /\ index < Len(example)
    /\ LET char == example[index + 1]
       IN  inputArr' = IF isSpecial(char) THEN splice(inputArr, index, char) ELSE inputArr
    /\ index' = index + 1
    /\ UNCHANGED <<fn, input, example, amount, decimalsArg, pc, out, isValid>>

\* return inputArr.join('')
customReturn ==
    /\ pc = "forEach"
    /\ index = Len(example)
    /\ out' = inputArr
    /\ pc' = "done"
    /\ UNCHANGED <<fn, input, example, amount, decimalsArg, inputArr, index, isValid>>

custom == customInvalid \/ customSplit \/ forEach \/ customReturn

----------------------------------------------------------------------------
(* format.cash *)

\* the default parameter: decimals = 0 when the argument is omitted
decimals == IF decimalsArg = <<>> THEN 0 ELSE decimalsArg[1]

\* the integer digits in groups of three, separated by the es-DO group symbol ','
RECURSIVE groupThousands(_)
groupThousands(digits) ==
    IF Len(digits) <= 3 THEN digits
    ELSE groupThousands(SubSeq(digits, 1, Len(digits) - 3))
             \o <<",">> \o SubSeq(digits, Len(digits) - 2, Len(digits))

\* the three fraction digits of a value in thousandths
fractionText(thousandths) ==
    LET text == toString(thousandths)
    IN  IF Len(text) = 1 THEN <<"0", "0">> \o text
        ELSE IF Len(text) = 2 THEN <<"0">> \o text
        ELSE text

\* trailing zeros are dropped down to minimumFractionDigits
RECURSIVE stripTrailingZeros(_, _)
stripTrailingZeros(fraction, minimumFractionDigits) ==
    IF Len(fraction) > minimumFractionDigits /\ fraction[Len(fraction)] = "0"
        THEN stripTrailingZeros(SubSeq(fraction, 1, Len(fraction) - 1), minimumFractionDigits)
        ELSE fraction

\* Intl.NumberFormat('es-DO', { minimumFractionDigits }).format(value): no
\* maximumFractionDigits is given, so it defaults to max(minimumFractionDigits, 3);
\* a value in thousandths is printed without rounding
NumberFormat(value, minimumFractionDigits) ==
    LET integer == groupThousands(toString(value \div 1000))
        fraction == stripTrailingZeros(fractionText(value % 1000), minimumFractionDigits)
    IN  IF fraction = <<>> THEN integer ELSE integer \o <<".">> \o fraction

cash ==
    /\ pc = "start" /\ fn = "cash"
    /\ out' = NumberFormat(amount, decimals)
    /\ pc' = "done"
    /\ UNCHANGED <<fn, input, example, amount, decimalsArg, inputArr, index, isValid>>

----------------------------------------------------------------------------
(* Calls *)

CallDuiIsValid ==
    /\ pc = "start" /\ fn = "duiIsValid"
    /\ isValid' = duiIsValid(input)
    /\ pc' = "done"
    /\ UNCHANGED <<fn, input, example, amount, decimalsArg, inputArr, index, out>>

\* the prefix of length n of a string
Prefix(str, n) == SubSeq(str, 1, n)

\* all strings of length n over a character set
Strings(chars, n) == [1..n -> chars]

(* Arguments of duiIsValid *)

NumFree == 3

MaxDuiLen == 12

\* '10225088357', the documented identity number
DocumentedDui == <<"1", "0", "2", "2", "5", "0", "8", "8", "3", "5", "7">>

\* '402256688353', the README's argument (12 characters)
ReadmeDui == <<"4", "0", "2", "2", "5", "6", "6", "8", "8", "3", "5", "3">>

NonDigits == {"a", "X", "-", " ", "."}

\* 11 digits: the documented number with its last NumFree working digits and
\* its check digit ranging over all digits
DigitStrings ==
    {Prefix(DocumentedDui, 10 - NumFree) \o free \o <<check>> :
        free \in Strings(Digits, NumFree), check \in Digits}

\* 11 characters, exactly one of them not a digit
OneNonDigit ==
    {[DocumentedDui EXCEPT ![p] = c] : p \in 1..11, c \in NonDigits}

\* digit strings of every other length up to MaxDuiLen
OtherLengths ==
    {Prefix(DocumentedDui \o tail, n) :
        tail \in Strings(Digits, 2), n \in (0..MaxDuiLen) \ {11}}

DuiInputs == DigitStrings \cup OneNonDigit \cup OtherLengths \cup {ReadmeDui}

InitDui ==
    /\ fn = "duiIsValid"
    /\ input \in DuiInputs
    /\ pc = "start"
    /\ example = <<>> /\ amount = 0 /\ decimalsArg = <<>>
    /\ inputArr = <<>> /\ index = 0 /\ out = <<>> /\ isValid = FALSE

NextDui == CallDuiIsValid

SpecDui == InitDui /\ [][NextDui]_vars

(* Arguments of the formatters *)

MaxNamedLen == 12

MaxTemplateLen == 5

\* '130800035', '8093458812' (documented in index.ts) and '8094260093' (README)
DocumentedRnc == <<"1", "3", "0", "8", "0", "0", "0", "3", "5">>

DocumentedPhone == <<"8", "0", "9", "3", "4", "5", "8", "8", "1", "2">>

ReadmePhone == <<"8", "0", "9", "4", "2", "6", "0", "0", "9", "3">>

\* filler characters, pairwise distinct
Filler == <<"a", "b", "c", "d", "e", "f", "g", "h", "i", "j", "k", "l", "m", "n", "o", "p">>

\* filler mixing letters, separators and digits
MixedFiller == <<"-", "x", " ", "0", "(", "y", "-", "7", ")", "z", " ", "0", "-", "w", "(", "9">>

NamedInputs ==
    {Prefix(base \o Filler, n) :
        base \in {DocumentedRnc, DocumentedDui, DocumentedPhone, ReadmePhone, <<>>},
        n \in 0..MaxNamedLen}

TemplateChars == {"0", "7", "X", "-", " "}

Templates == UNION {Strings(TemplateChars, n) : n \in 0..MaxTemplateLen}

CustomInputs ==
    {Prefix(filler, n) : filler \in {Filler, MixedFiller}, n \in 0..(MaxTemplateLen + 1)}

\* format.custom('99511469110', '0000-0000-00-0'), the documented call
DocumentedCustomInput == <<"9", "9", "5", "1", "1", "4", "6", "9", "1", "1", "0">>

DocumentedCustomExample ==
    <<"0", "0", "0", "0", "-", "0", "0", "0", "0", "-", "0", "0", "-", "0">>

\* format.custom('8078', 'XXXX - XXXX - XXXX - XXXX'), the README's call
ReadmeCustomInput == <<"8", "0", "7", "8">>

ReadmeCustomExample ==
    <<"X", "X", "X", "X", " ", "-", " ", "X", "X", "X", "X", " ", "-", " ",
      "X", "X", "X", "X", " ", "-", " ", "X", "X", "X", "X">>

InitFormat ==
    /\ \/ /\ fn \in {"rnc", "dui", "phone"}
          /\ input \in NamedInputs
          /\ example = <<>>
          /\ pc = "start"
       \/ /\ fn = "custom"
          /\ \/ input \in CustomInputs /\ example \in Templates
             \/ input = DocumentedCustomInput /\ example = DocumentedCustomExample
             \/ input = ReadmeCustomInput /\ example = ReadmeCustomExample
          /\ pc = "custom"
    /\ amount = 0 /\ decimalsArg = <<>>
    /\ inputArr = <<>> /\ index = 0 /\ out = <<>> /\ isValid = FALSE

NextFormat == rnc \/ dui \/ phone \/ custom

SpecFormat == InitFormat /\ [][NextFormat]_vars

(* Arguments of format.cash *)

MaxWhole == 12

WholeSamples == {999, 1000, 4623, 9000, 999999, 1000000, 1234567}

CashAmounts ==
    {whole * 1000 + thousandths :
        whole \in (0..MaxWhole) \cup WholeSamples, thousandths \in 0..999}

InitCash ==
    /\ fn = "cash"
    /\ amount \in CashAmounts
    /\ decimalsArg \in {<<>>, <<0>>, <<1>>, <<2>>}
    /\ pc = "start"
    /\ input = <<>> /\ example = <<>>
    /\ inputArr = <<>> /\ index = 0 /\ out = <<>> /\ isValid = FALSE

NextCash == cash

SpecCash == InitCash /\ [][NextCash]_vars

Init == InitDui \/ InitFormat \/ InitCash

Next == NextDui \/ NextFormat \/ NextCash

Spec == Init /\ [][Next]_vars

----------------------------------------------------------------------------
(* Properties of duiIsValid, checked under SpecDui *)

AllDigits(str) == \A i \in 1..Len(str) : str[i] \in Digits

DuiDone == fn = "duiIsValid" /\ pc = "done"

\* C1: duiIsValid returns false for every input that is empty, whose length is
\* not 11, or that holds a character outside '0'-'9'; the call has no other
\* outcome than a returned boolean.
C1_StructurallyInvalidRejected ==
    fn = "duiIsValid" =>
        /\ pc \in {"start", "done"}
        /\ isValid \in BOOLEAN
        /\ (pc = "done" /\ (Len(input) # 11 \/ ~AllDigits(input))) => isValid = FALSE

\* an 11-character input whose only non-digit is its last character has been rejected
C1_Witness ==
    /\ DuiDone /\ Len(input) = 11
    /\ AllDigits(Prefix(input, 10)) /\ input[11] = " "
    /\ isValid = FALSE

\* the claim's own arithmetic: d[i] * m, a product above 9 replaced by the sum
\* of its two decimal digits
ClaimProduct(d, i) ==
    LET product == d * (IF i % 2 = 1 THEN 2 ELSE 1)
    IN  IF product > 9 THEN (product \div 10) + (product % 10) ELSE product

RECURSIVE ClaimSumTo(_, _)
ClaimSumTo(str, i) ==
    IF i < 0 THEN 0 ELSE ClaimProduct(Number(str[i + 1]), i) + ClaimSumTo(str, i - 1)

ClaimValidator(str) ==
    LET total == ClaimSumTo(str, 9)
        claimTopTen == ((total \div 10) + 1) * 10
    IN  claimTopTen - total

ClaimAccepts(str) ==
    LET check == Number(str[11])
    IN  check = ClaimValidator(str) \/ (check = 0 /\ ClaimValidator(str) = 10)

\* C2: for 11 decimal digits, duiIsValid returns true iff check == validator or
\* (check == 0 and validator == 10), with sum, topTen and validator as the claim
\* computes them; topTen is the next multiple of 10 strictly greater than sum.
C2_ValidIffCheckDigit ==
    (DuiDone /\ Len(input) = 11 /\ AllDigits(input)) =>
        /\ isValid <=> ClaimAccepts(input)
        /\ LET total == sum(Prefix(input, 10))
           IN  /\ total = ClaimSumTo(input, 9)
               /\ topTen(total) % 10 = 0
               /\ topTen(total) > total
               /\ topTen(total) - 10 <= total

\* '10225088359' has been accepted: index 7 holds 8, doubled to 16 and reduced to 7
C2_Witness ==
    /\ DuiDone /\ isValid = TRUE
    /\ input = Prefix(DocumentedDui, 10) \o <<"9">>

AcceptedCheckDigits(prefix) == {c \in Digits : duiIsValid(prefix \o <<c>>)}

\* the relational part of C3: an accepted identifier is rejected with any other
\* last digit, and each 10-digit prefix has exactly one accepted check digit,
\* which is 0 when the computed validator is 10
C3_OneCheckDigit ==
    (DuiDone /\ Len(input) = 11 /\ AllDigits(input)) =>
        LET prefix == Prefix(input, 10)
            accepted == AcceptedCheckDigits(prefix)
        IN  /\ isValid => accepted \ {input[11]} = {}
            /\ Cardinality(accepted) = 1
            /\ validator(prefix) = 10 => accepted = {"0"}

\* C3 as stated: the relational part, with "10225088357" an accepted identifier.
C3_Original ==
    /\ C3_OneCheckDigit
    /\ (DuiDone /\ input = DocumentedDui) => isValid = TRUE

\* C3 as amended: the relational part, with "10225088359" the accepted identifier
\* of the prefix 1022508835 and "10225088357" rejected.
C3_Amended ==
    /\ C3_OneCheckDigit
    /\ (DuiDone /\ input = Prefix(DocumentedDui, 10) \o <<"9">>) => isValid = TRUE
    /\ (DuiDone /\ input = DocumentedDui) => isValid = FALSE

\* an identifier whose computed validator is 10 has been accepted with check digit 0
C3_Witness ==
    /\ DuiDone /\ isValid = TRUE
    /\ Len(input) = 11 /\ AllDigits(input)
    /\ input[11] = "0"
    /\ validator(Prefix(input, 10)) = 10

----------------------------------------------------------------------------
(* Properties of the formatters, checked under SpecFormat *)

\* a separator of the template: a character not matching [0-9A-Za-z]
IsSeparator(c) == c \notin (Digits \cup Letters)

\* the number of characters of the template matching [0-9A-Za-z]
PlaceholderCount(template) ==
    Cardinality({i \in 1..Len(template) : ~IsSeparator(template[i])})

\* the characters of str at the positions of the template that are not separators
NonSeparatorPart(str, template) ==
    LET keep == {i \in 1..Len(str) : i > Len(template) \/ ~IsSeparator(template[i])}
        F[i \in 0..Len(str)] ==
            IF i = 0 THEN <<>>
            ELSE IF i \in keep THEN F[i - 1] \o <<str[i]>> ELSE F[i - 1]
    IN  F[Len(str)]

CustomDone == fn = "custom" /\ pc = "done"

\* C4: format.custom returns "Entrada Invalida" whenever input.length differs from
\* the number of template characters matching [0-9A-Za-z], and does not return it
\* when the two are equal.
C4_SentinelIffLengthMismatch ==
    CustomDone => (out = EntradaInvalida <=> Len(input) # PlaceholderCount(example))

\* C5: a result other than the sentinel has the template's length, the template's
\* separators at the template's indices and the input's characters, in order, at
\* the remaining indices.
C5_ResultShape ==
    (CustomDone /\ out # EntradaInvalida) =>
        /\ Len(out) = Len(example)
        /\ \A i \in 1..Len(example) : IsSeparator(example[i]) => out[i] = example[i]
        /\ NonSeparatorPart(out, example) = input

Interleave3(str, a, n1, b, n2) ==
    SubSeq(str, 1, n1) \o a \o SubSeq(str, n1 + 1, n2) \o b \o SubSeq(str, n2 + 1, Len(str))

C7_ReadmePhone ==
    (fn = "phone" /\ pc = "done" /\ input = ReadmePhone) =>
        out = <<"(", "8", "0", "9", ")", " ", "4", "2", "6", " ", "-", " ", "0", "0", "9", "3">>

\* the single forward scan: template and input cursors walked together
RECURSIVE ForwardScan(_, _, _, _)
ForwardScan(str, template, t, i) ==
    IF t > Len(template) THEN <<>>
    ELSE IF IsSeparator(template[t])
        THEN <<template[t]>> \o ForwardScan(str, template, t + 1, i)
        ELSE <<str[i]>> \o ForwardScan(str, template, t + 1, i + 1)

ZeroPlaceholders(template) ==
    \A i \in 1..Len(template) : template[i] = "0" \/ IsSeparator(template[i])

\* C9: for a template whose placeholders are all '0' and an input as long as the
\* number of placeholders, the splice loop returns what the forward scan returns.
C9_SpliceLoopIsForwardScan ==
    (CustomDone /\ ZeroPlaceholders(example) /\ Len(input) = PlaceholderCount(example)) =>
        out = ForwardScan(input, example, 1, 1)

\* a template with a leading, a trailing and two consecutive separators has been
\* applied to an input of at least two characters
C9_Witness ==
    /\ CustomDone /\ ZeroPlaceholders(example) /\ Len(input) = PlaceholderCount(example)
    /\ Len(input) >= 2 /\ Len(example) >= 2
    /\ IsSeparator(example[1]) /\ IsSeparator(example[Len(example)])
    /\ \E i \in 1..(Len(example) - 1) : IsSeparator(example[i]) /\ IsSeparator(example[i + 1])
    /\ out = ForwardScan(input, example, 1, 1)

\* C10: at each step of the walk, the separator at template index i is inserted
\* at an index not beyond the current length of the working array.
C10_InsertWithinArray ==
    (pc = "forEach" /\ index < Len(example) /\ isSpecial(example[index + 1])) =>
        index <= Len(inputArr)

----------------------------------------------------------------------------
(* Properties of format.cash, checked under SpecCash *)

\* the number of characters after the decimal point; 0 when there is none
FractionLength(str) ==
    IF \E i \in 1..Len(str) : str[i] = "."
        THEN Len(str) - (CHOOSE i \in 1..Len(str) : str[i] = ".")
        ELSE 0

\* the characters before the decimal point
IntegerPart(str) ==
    IF \E i \in 1..Len(str) : str[i] = "."
        THEN SubSeq(str, 1, (CHOOSE i \in 1..Len(str) : str[i] = ".") - 1)
        ELSE str

\* digits in groups of three from the right, separated by commas
Grouped(n) ==
    LET text == toString(n)
        F[i \in 0..Len(text)] ==
            IF i = 0 THEN <<>>
            ELSE (IF i > 1 /\ (Len(text) - i + 1) % 3 = 0 THEN F[i - 1] \o <<",">> ELSE F[i - 1])
                     \o <<text[i]>>
    IN  F[Len(text)]

\* C8: format.cash returns the amount with its integer part grouped in thousands
\* by commas and exactly `decimals` digits after a period (no decimal part when
\* decimals is 0).
C8_ExactlyDecimalsDigits ==
    (fn = "cash" /\ pc = "done") =>
        /\ IntegerPart(out) \in {Grouped(amount \div 1000), Grouped((amount \div 1000) + 1)}
        /\ FractionLength(out) = decimals
        /\ (decimals = 0) => \A i \in 1..Len(out) : out[i] # "."

====
